---- MODULE Spec2Model ----
(***************************************************************************)
(* Model of src/main.py: a FastAPI service with five handlers over one     *)
(* "users" table, a process-wide asyncpg connection pool, and the startup  *)
(* and shutdown hooks that create and close the pool.                      *)
(*                                                                         *)
(* Every handler is a coroutine with three awaits: pool.acquire(), the     *)
(* single SQL statement, and the release of the connection when the        *)
(* "async with" block is left.  Each await is one step of the model, so    *)
(* the handlers of concurrent requests interleave exactly at these points. *)
(* A statement is atomic in the database; it either takes effect and       *)
(* returns, or raises and leaves the table unchanged.                      *)
(***************************************************************************)
EXTENDS Integers, Sequences, FiniteSets, TLC

(* ------------------------------ bounds --------------------------------- *)
\* number of requests that can be in flight at the same time
NumReqs == 2
\* number of values the id sequence of the users table can hand out
MaxSeq == 2

Reqs == 1..NumReqs
\* user_id path parameters tried: every assignable id and one beyond
UserIds == 1..(MaxSeq + 1)

(* ---------------------------- constants -------------------------------- *)
\* asyncpg.create_pool(DATABASE_URL) is called with no max_size: the pool
\* lends at most asyncpg's default of 10 connections at the same time
PoolSize == 10

(* --------------------------- status codes ------------------------------ *)
HTTP_200_OK == 200
HTTP_201_CREATED == 201
HTTP_204_NO_CONTENT == 204
HTTP_404_NOT_FOUND == 404
HTTP_500 == 500

(* ------------------------------- Post ---------------------------------- *)
\* Python's None for the optional string fields
None == "None"

\* class Post(BaseModel): the validated request body of create and update
Post(name, email, phone, password, picture, is_active) ==
    [name |-> name, email |-> email, phone |-> phone, password |-> password,
     picture |-> picture, is_active |-> is_active]

\* valid payloads: one with every field given, one relying on the defaults
\* phone = None, picture = None, is_active = True
Posts == { Post("ann", "ann@x.io", "555", "pw-a", "http://pic/a", FALSE),
           Post("bob", "bob@x.io", None, "pw-b", None, TRUE) }

NoPost == Post("", "", None, "", None, TRUE)

\* exceptions the database driver raises from a statement
DbErrors == {"connection was closed"}

(* ------------------------- the users table ----------------------------- *)
\* a row of the users table, as dict(record) shows it
Row(id, name, email, phone, password) ==
    [id |-> id, name |-> name, email |-> email, phone |-> phone,
     password |-> password]

\* the positional arguments $1..$4 of the INSERT statement
InsertParamsSwapped(post) == <<post.name, post.phone, post.email, post.password>>
InsertParams(post) == <<post.name, post.email, post.phone, post.password>>

\* INSERT INTO users (name, email, phone, password) VALUES ($1, $2, $3, $4)
\* RETURNING *: id is not given, so the table's sequence generates it.
\* Gives the new table, the new sequence value and the returned row.
InsertUserCountId(tbl, seq, p) ==
    LET row == Row(Len(tbl) + 1, p[1], p[2], p[3], p[4])
    IN  [tbl |-> Append(tbl, row), seq |-> seq + 1, row |-> row]
InsertUser(tbl, seq, p) ==
    LET row == Row(seq + 1, p[1], p[2], p[3], p[4])
    IN  [tbl |-> Append(tbl, row), seq |-> seq + 1, row |-> row]

\* fetchrow: the first row of a result, or None (the empty sequence here)
FetchRow(rows) == IF rows = <<>> THEN <<>> ELSE <<Head(rows)>>

\* SELECT * FROM users
SelectFirstOnly(tbl) == FetchRow(tbl)
SelectAll(tbl) == tbl

\* SELECT * FROM users WHERE id = $1
SelectUserNoWhere(tbl, user_id) == tbl
SelectUser(tbl, user_id) == SelectSeq(tbl, LAMBDA row : row.id = user_id)

\* DELETE FROM users WHERE id = $1
DeleteUserNothing(tbl, user_id) == tbl
DeleteUser(tbl, user_id) == SelectSeq(tbl, LAMBDA row : row.id # user_id)

\* UPDATE users SET name = $1, email = $2, phone = $3, password = $4
\* WHERE id = $5 RETURNING *: the table after the update and the updated rows
UpdateUserNoWhere(tbl, post, user_id) ==
    LET new == [k \in DOMAIN tbl |->
                  Row(tbl[k].id, post.name, post.email, post.phone, post.password)]
    IN  [tbl |-> new, returning |-> new]
UpdateUser(tbl, post, user_id) ==
    LET new == [k \in DOMAIN tbl |->
                  IF tbl[k].id = user_id
                  THEN Row(tbl[k].id, post.name, post.email, post.phone, post.password)
                  ELSE tbl[k]]
    IN  [tbl |-> new, returning |-> SelectSeq(new, LAMBDA row : row.id = user_id)]

(* ----------------------------- responses ------------------------------- *)
\* what a handler hands to the framework: kind says how (a returned value,
\* a returned JSONResponse, a raised HTTPException, or an exception that
\* leaves the handler uncaught), rows are the returned records, body a
\* <<key, text>> pair of the returned or raised message
Response(kind, status, rows, body) ==
    [kind |-> kind, status |-> status, rows |-> rows, body |-> body]

NoResponse == Response("none", 0, <<>>, <<>>)

Unhandled(exc) == Response("unhandled", HTTP_500, <<>>, <<"exception", exc>>)

NotFound(user_id) ==
    Response("HTTPException", HTTP_404_NOT_FOUND, <<>>,
             <<"detail", "User with id:" \o ToString(user_id) \o " was not found">>)

\* get_users, after the async with block
GetUsersResponse(result, exc) ==
    IF exc # "" THEN Unhandled(exc)
    ELSE Response("return", HTTP_200_OK, result, <<>>)

\* create_user: the except clause and the final return
CreateUserResponseUncaught(result, exc) ==
    IF exc # "" THEN Unhandled(exc)
    ELSE Response("return", HTTP_201_CREATED, result, <<>>)
CreateUserResponse(result, exc) ==
    IF exc # "" THEN Response("JSONResponse", HTTP_500, <<>>, <<"error", exc>>)
    ELSE Response("return", HTTP_201_CREATED, result, <<>>)

\* get_user, after the async with block
GetUserResponseNoCheck(result, exc, user_id) ==
    IF exc # "" THEN Unhandled(exc)
    ELSE IF result = <<>> THEN Unhandled("TypeError")
    ELSE Response("return", HTTP_200_OK, result, <<>>)
GetUserResponse(result, exc, user_id) ==
    IF exc # "" THEN Unhandled(exc)
    ELSE IF result = <<>> THEN NotFound(user_id)
    ELSE Response("return", HTTP_200_OK, result, <<>>)

\* delete_user: the except clause and the final return
DeleteUserResponse(exc) ==
    IF exc # ""
    THEN Response("HTTPException", HTTP_500, <<>>,
                  <<"detail", "Failed to delete user: " \o exc>>)
    ELSE Response("return", HTTP_204_NO_CONTENT, <<>>,
                  <<"message", "User successfully deleted">>)

\* update_user, after the async with block
UpdateUserResponse(result, exc, user_id) ==
    IF exc # "" THEN Unhandled(exc)
    ELSE IF result = <<>> THEN NotFound(user_id)
    ELSE Response("return", HTTP_200_OK, result, <<>>)

(* ------------------------------- pool ---------------------------------- *)
\* leaving "async with pool.acquire() as conn", by return or by exception:
\* the connection is no longer lent
ReleaseConnOnSuccessOnly(lent, exc) == IF exc = "" THEN lent - 1 ELSE lent
ReleaseConn(lent, exc) == lent - 1

\* shutdown(): await pool.close()
PoolCloseNotAwaited(p) == p
PoolClose(p) == "closing"

(* ------------------------------ state ---------------------------------- *)
VARIABLES
    pool,         \* the global pool: "None", or a Pool that is "open", "closing" or "closed"
    phase,        \* where the process is in its lifecycle hooks
    leased,       \* how many connections of the pool are lent out
    users,        \* the users table, in scan order
    seq,          \* last value handed out by the id sequence of the table
    req,          \* the request handled in each slot
    issued,       \* history: the ids given to inserted rows, in order
    nDeleted,     \* history: how many rows DELETE statements have removed
    touched,      \* history: ids whose row an UPDATE or DELETE has matched
    poolCreates,  \* history: how many pools were created
    poolCloses    \* history: how many times a pool was closed

vars == <<pool, phase, leased, users, seq, req, issued, nDeleted, touched,
          poolCreates, poolCloses>>

dbvars == <<users, seq, issued, nDeleted, touched>>
lifevars == <<pool, phase, poolCreates, poolCloses>>

Ops == {"get_users", "create_user", "get_user", "delete_user", "update_user"}

\* a slot with no request.  result and exc are the handler's locals, resp is
\* what it hands to the framework; hit is history: the statement matched a row
Idle == [op |-> "none", pc |-> "idle", user_id |-> 0, post |-> NoPost, conn |-> FALSE,
         result |-> <<>>, exc |-> "", resp |-> NoResponse, hit |-> FALSE]

Init ==
    /\ pool = "None"
    /\ phase = "init"
    /\ leased = 0
    /\ users = <<>>
    /\ seq = 0
    /\ req = [r \in Reqs |-> Idle]
    /\ issued = <<>>
    /\ nDeleted = 0
    /\ touched = {}
    /\ poolCreates = 0
    /\ poolCloses = 0

(* ------------------------- lifecycle hooks ----------------------------- *)
\* startup(): up to the await of asyncpg.create_pool
Startup ==
    /\ phase = "init"
    /\ phase' = "starting"
    /\ UNCHANGED <<pool, leased, req, dbvars, poolCreates, poolCloses>>

\* startup(): create_pool returned, the global is assigned
StartupDone ==
    /\ phase = "starting"
    /\ phase' = "running"
    /\ pool' = "open"
    /\ poolCreates' = poolCreates + 1
    /\ UNCHANGED <<leased, req, dbvars, poolCloses>>

\* startup(): create_pool raised, the application does not start
StartupFail ==
    /\ phase = "starting"
    /\ phase' = "failed"
    /\ UNCHANGED <<pool, leased, req, dbvars, poolCreates, poolCloses>>

\* shutdown(): the server runs it once traffic has stopped; pool.close() is
\* called and the pool stops lending
Shutdown ==
    /\ phase = "running"
    /\ \A r \in Reqs : req[r].pc = "idle"
    /\ phase' = "stopping"
    /\ pool' = PoolClose(pool)
    /\ UNCHANGED <<leased, req, dbvars, poolCreates, poolCloses>>

\* shutdown(): a closing pool waits until every connection is released,
\* then it is closed and shutdown() returns
ShutdownDone ==
    /\ phase = "stopping"
    /\ pool = "closing" => leased = 0
    /\ phase' = "stopped"
    /\ pool' = IF pool = "closing" THEN "closed" ELSE pool
    /\ poolCloses' = IF pool = "closing" THEN poolCloses + 1 ELSE poolCloses
    /\ UNCHANGED <<leased, req, dbvars, poolCreates>>

(* ----------------------------- handlers -------------------------------- *)
\* creates whose INSERT has not run yet
PendingCreates ==
    Cardinality({r \in Reqs : req[r].op = "create_user" /\ req[r].pc \in {"acquire", "exec"}})

\* a handler is called with its validated arguments: from a request, or
\* directly, which can also be before startup or after shutdown
Begin(r) ==
    /\ phase # "failed"
    /\ req[r].pc = "idle"
    /\ \E op \in Ops, user_id \in UserIds, post \in Posts :
          /\ op = "create_user" => seq + PendingCreates < MaxSeq
          /\ req' = [req EXCEPT ![r] =
                [Idle EXCEPT !.op = op, !.pc = "acquire",
                    !.user_id = IF op \in {"get_user", "delete_user", "update_user"}
                                THEN user_id ELSE 0,
                    !.post = IF op \in {"create_user", "update_user"} THEN post ELSE NoPost]]
    /\ UNCHANGED <<leased, dbvars, lifevars>>

\* async with pool.acquire() as conn: pool is None (AttributeError), the pool
\* no longer lends (InterfaceError), or a free connection is handed over; with
\* none free the handler waits.  Both exceptions are raised outside every try.
Acquire(r) ==
    /\ req[r].pc = "acquire"
    /\ \/ /\ pool = "None"
          /\ req' = [req EXCEPT ![r].pc = "done", ![r].exc = "AttributeError",
                                ![r].resp = Unhandled("AttributeError")]
          /\ UNCHANGED leased
       \/ /\ pool \in {"closing", "closed"}
          /\ req' = [req EXCEPT ![r].pc = "done", ![r].exc = "InterfaceError",
                                ![r].resp = Unhandled("InterfaceError")]
          /\ UNCHANGED leased
       \/ /\ pool = "open"
          /\ leased < PoolSize
          /\ leased' = leased + 1
          /\ req' = [req EXCEPT ![r].pc = "exec", ![r].conn = TRUE]
    /\ UNCHANGED <<dbvars, lifevars>>

\* the statement raises: the table is as before
ExecFail(r) ==
    /\ req[r].pc = "exec"
    /\ \E e \in DbErrors : req' = [req EXCEPT ![r].pc = "release", ![r].exc = e]
    /\ UNCHANGED <<dbvars, leased, lifevars>>

Present(user_id) == \E k \in DOMAIN users : users[k].id = user_id

\* result = await conn.fetch("SELECT * FROM users")
ExecGetUsers(r) ==
    /\ req[r].pc = "exec" /\ req[r].op = "get_users"
    /\ req' = [req EXCEPT ![r].pc = "release", ![r].result = SelectAll(users)]
    /\ UNCHANGED <<dbvars, leased, lifevars>>

\* result = await conn.fetchrow("INSERT ... RETURNING *", name, email, phone, password)
ExecCreateUser(r) ==
    /\ req[r].pc = "exec" /\ req[r].op = "create_user"
    /\ LET ins == InsertUser(users, seq, InsertParams(req[r].post))
       IN  /\ users' = ins.tbl
           /\ seq' = ins.seq
           /\ issued' = Append(issued, ins.row.id)
           /\ req' = [req EXCEPT ![r].pc = "release", ![r].result = <<ins.row>>]
    /\ UNCHANGED <<nDeleted, touched, leased, lifevars>>

\* result = await conn.fetchrow("SELECT * FROM users WHERE id = $1", user_id)
ExecGetUser(r) ==
    /\ req[r].pc = "exec" /\ req[r].op = "get_user"
    /\ req' = [req EXCEPT ![r].pc = "release",
                  ![r].result = FetchRow(SelectUser(users, req[r].user_id))]
    /\ UNCHANGED <<dbvars, leased, lifevars>>

\* await conn.execute("DELETE FROM users WHERE id = $1", user_id)
ExecDeleteUser(r) ==
    /\ req[r].pc = "exec" /\ req[r].op = "delete_user"
    /\ LET i == req[r].user_id
       IN  /\ users' = DeleteUser(users, i)
           /\ nDeleted' = nDeleted + (Len(users) - Len(users'))
           /\ touched' = IF Present(i) THEN touched \cup {i} ELSE touched
           /\ req' = [req EXCEPT ![r].pc = "release", ![r].hit = Present(i)]
    /\ UNCHANGED <<seq, issued, leased, lifevars>>

\* result = await conn.fetchrow("UPDATE ... WHERE id = $5 RETURNING *", ..., user_id)
ExecUpdateUser(r) ==
    /\ req[r].pc = "exec" /\ req[r].op = "update_user"
    /\ LET i == req[r].user_id
           upd == UpdateUser(users, req[r].post, i)
       IN  /\ users' = upd.tbl
           /\ touched' = IF Present(i) THEN touched \cup {i} ELSE touched
           /\ req' = [req EXCEPT ![r].pc = "release",
                         ![r].result = FetchRow(upd.returning)]
    /\ UNCHANGED <<seq, issued, nDeleted, leased, lifevars>>

\* what the handler answers once its async with block is left
HandlerResponse(q) ==
    CASE q.op = "get_users"   -> GetUsersResponse(q.result, q.exc)
      [] q.op = "create_user" -> CreateUserResponse(q.result, q.exc)
      [] q.op = "get_user"    -> GetUserResponse(q.result, q.exc, q.user_id)
      [] q.op = "delete_user" -> DeleteUserResponse(q.exc)
      [] q.op = "update_user" -> UpdateUserResponse(q.result, q.exc, q.user_id)

\* the async with block is left, by return or by exception: the connection is
\* released, then the handler returns or raises
Release(r) ==
    /\ req[r].pc = "release"
    /\ leased' = ReleaseConn(leased, req[r].exc)
    /\ req' = [req EXCEPT ![r].pc = "done", ![r].conn = FALSE,
                          ![r].resp = HandlerResponse(req[r])]
    /\ UNCHANGED <<dbvars, lifevars>>

\* the response is sent; the slot takes the next request
Finish(r) ==
    /\ req[r].pc = "done"
    /\ req' = [req EXCEPT ![r] = Idle]
    /\ UNCHANGED <<leased, dbvars, lifevars>>

Next ==
    \/ Startup
    \/ StartupDone
    \/ StartupFail
    \/ Shutdown
    \/ ShutdownDone
    \/ \E r \in Reqs : Begin(r)
    \/ \E r \in Reqs : Acquire(r)
    \/ \E r \in Reqs : ExecFail(r)
    \/ \E r \in Reqs : ExecGetUsers(r)
    \/ \E r \in Reqs : ExecCreateUser(r)
    \/ \E r \in Reqs : ExecGetUser(r)
    \/ \E r \in Reqs : ExecDeleteUser(r)
    \/ \E r \in Reqs : ExecUpdateUser(r)
    \/ \E r \in Reqs : Release(r)
    \/ \E r \in Reqs : Finish(r)

Spec == Init /\ [][Next]_vars

(* ============================ properties =============================== *)
SameFields(row, post) ==
    /\ row.name = post.name
    /\ row.email = post.email
    /\ row.phone = post.phone
    /\ row.password = post.password

NoDup(s) == \A j, k \in DOMAIN s : j # k => s[j] # s[k]

\* request r has been answered by op
Done(r, op) == req[r].op = op /\ req[r].pc = "done"

\* in this step the statement of request r, a call of op, runs without raising
Ran(r, op) ==
    /\ req[r].op = op /\ req[r].pc = "exec"
    /\ req'[r].pc = "release" /\ req'[r].exc = ""

\* in this step the handler of request r leaves its async with block and
\* answers with what its locals determine
Answers(r) ==
    (req[r].pc = "release" /\ req'[r].pc = "done") => req'[r].resp = HandlerResponse(req[r])

(* C1: whenever the INSERT of a create_user does not raise, the handler      *)
(* returns, as 201, one record whose name, email, phone and password are     *)
(* those of the submitted payload and whose id is an integer the table has   *)
(* given to that row alone: no id is ever given to two rows, deleted or not. *)
C1_CreateReturnsSubmittedFieldsAndFreshId ==
    /\ NoDup(issued)
    /\ \A r \in Reqs :
          (Done(r, "create_user") /\ req[r].exc = "") =>
              /\ req[r].resp.kind = "return"
              /\ req[r].resp.status = HTTP_201_CREATED
              /\ Len(req[r].resp.rows) = 1
              /\ SameFields(req[r].resp.rows[1], req[r].post)
              /\ req[r].resp.rows[1].id \in Int
              /\ Cardinality({k \in DOMAIN issued : issued[k] = req[r].resp.rows[1].id}) = 1

\* a create has returned the record with id 2 after the row with id 1 was
\* created and deleted
C1_Witness ==
    \E r \in Reqs :
        /\ Done(r, "create_user") /\ req[r].resp.kind = "return"
        /\ req[r].resp.rows[1].id = 2
        /\ issued = <<1, 2>>
        /\ ~Present(1)

(* C2: when create_user has returned a record with id i and no UPDATE or     *)
(* DELETE has matched that row since it was inserted, a get_user(i) whose    *)
(* SELECT does not raise returns, as 200, a record equal to the returned one *)
(* in id, name, email, phone and password.                                   *)
C2_CreateThenGetRoundTrip ==
    [][\A r, c \in Reqs :
          ( /\ Ran(r, "get_user")
            /\ Done(c, "create_user") /\ req[c].resp.kind = "return"
            /\ req[c].resp.rows[1].id = req[r].user_id
            /\ req[r].user_id \notin touched )
          => /\ HandlerResponse(req'[r]) =
                    Response("return", HTTP_200_OK, <<req[c].resp.rows[1]>>, <<>>)
             /\ DOMAIN req[c].resp.rows[1] = {"id", "name", "email", "phone", "password"}
      ]_vars

\* a get_user has answered with the record a create_user returned, while
\* another row is in the table too
C2_Witness ==
    \E r, c \in Reqs :
        /\ Done(c, "create_user") /\ req[c].resp.kind = "return"
        /\ Done(r, "get_user") /\ req[r].user_id = req[c].resp.rows[1].id
        /\ req[r].user_id \notin touched
        /\ req[r].resp.status = HTTP_200_OK
        /\ req[r].resp.rows = req[c].resp.rows
        /\ Len(users) = 2

(* C3: a get_user(i) whose SELECT does not raise fails with a 404            *)
(* HTTPException whose detail is "User with id:{i} was not found" when the   *)
(* table has no row with id i, and returns that row, as 200, when it has.    *)
C3_GetUserFoundOrNotFound ==
    [][\A r \in Reqs :
          ( /\ Answers(r)
            /\ Ran(r, "get_user") =>
                 LET i == req[r].user_id
                     a == HandlerResponse(req'[r])
                 IN  IF Present(i)
                     THEN /\ a.kind = "return" /\ a.status = HTTP_200_OK
                          /\ \E k \in DOMAIN users :
                                users[k].id = i /\ a.rows = <<users[k]>>
                     ELSE /\ a.kind = "HTTPException"
                          /\ a.status = HTTP_404_NOT_FOUND
                          /\ a.rows = <<>>
                          /\ a.body = <<"detail", "User with id:" \o ToString(i)
                                                      \o " was not found">> )
      ]_vars

\* one get_user of an id beyond every assigned id has failed with 404 and its
\* message, another of an existing id has returned its row
C3_Witness ==
    \E r, f \in Reqs :
        /\ Done(r, "get_user") /\ req[r].user_id > seq
        /\ req[r].resp.status = HTTP_404_NOT_FOUND
        /\ req[r].resp.body[2] = "User with id:" \o ToString(req[r].user_id) \o " was not found"
        /\ Done(f, "get_user") /\ req[f].resp.status = HTTP_200_OK
        /\ req[f].resp.rows[1].id = req[f].user_id

(* C4: an update_user(i, payload) whose UPDATE does not raise fails with 404 *)
(* and changes nothing when no row has id i; when a row has id i it returns, *)
(* as 200, one record with id i and the payload's name, email, phone and     *)
(* password, and that record is the row the table holds under i right after. *)
C4_UpdateReturnsPayloadOrNotFound ==
    [][\A r \in Reqs :
          ( /\ Answers(r)
            /\ Ran(r, "update_user") =>
                 LET i == req[r].user_id
                     a == HandlerResponse(req'[r])
                 IN  IF Present(i)
                     THEN /\ a.kind = "return" /\ a.status = HTTP_200_OK
                          /\ Len(a.rows) = 1
                          /\ a.rows[1].id = i
                          /\ SameFields(a.rows[1], req[r].post)
                          /\ SelectSeq(users', LAMBDA row : row.id = i) = a.rows
                          /\ \A k \in DOMAIN users : users[k].id # i => users'[k] = users[k]
                     ELSE /\ a.kind = "HTTPException"
                          /\ a.status = HTTP_404_NOT_FOUND
                          /\ users' = users )
      ]_vars

\* an update has returned the record now stored under the second id, its
\* fields differing from the other row's; another update has failed with 404
C4_Witness ==
    \E r, f \in Reqs :
        /\ Done(r, "update_user") /\ req[r].resp.status = HTTP_200_OK
        /\ req[r].user_id = 2
        /\ \E k \in DOMAIN users : users[k] = req[r].resp.rows[1]
        /\ \E k \in DOMAIN users : users[k].id = 1 /\ users[k].name # req[r].post.name
        /\ Done(f, "update_user") /\ req[f].resp.status = HTTP_404_NOT_FOUND

(* C5: once a delete_user(i) whose DELETE found the row has completed with   *)
(* its success message, a get_user(i) whose SELECT does not raise fails with *)
(* 404; and a delete_user(i) whose DELETE finds no row and does not raise    *)
(* returns the message "User successfully deleted", not an error.            *)
C5_DeleteThenGetNotFound ==
    [][\A r, d \in Reqs :
          /\ ( /\ Ran(r, "get_user")
               /\ Done(d, "delete_user") /\ req[d].resp.kind = "return"
               /\ req[d].hit /\ req[d].user_id = req[r].user_id )
             => /\ HandlerResponse(req'[r]).kind = "HTTPException"
                /\ HandlerResponse(req'[r]).status = HTTP_404_NOT_FOUND
          /\ ( Ran(d, "delete_user") /\ ~Present(req[d].user_id) )
             => /\ HandlerResponse(req'[d]) =
                      Response("return", HTTP_204_NO_CONTENT, <<>>,
                               <<"message", "User successfully deleted">>)
                /\ users' = users
      ]_vars

\* a delete_user of an existing id has completed, its row is gone and the
\* other row is still there; a get_user of that id has failed with 404
C5_Witness ==
    \E r, d \in Reqs :
        /\ Done(d, "delete_user") /\ req[d].hit /\ req[d].resp.kind = "return"
        /\ req[d].resp.body = <<"message", "User successfully deleted">>
        /\ Done(r, "get_user") /\ req[r].user_id = req[d].user_id
        /\ req[r].resp.status = HTTP_404_NOT_FOUND
        /\ ~Present(req[d].user_id)
        /\ Len(users) = 1

(* C6: with N rows inserted and M rows deleted so far, a get_users whose     *)
(* SELECT does not raise returns exactly N - M records, no two of them with  *)
(* the same id.                                                              *)
C6_ListReturnsCreatedMinusDeleted ==
    [][\A r \in Reqs :
          ( /\ Answers(r)
            /\ Ran(r, "get_users") =>
                 LET a == HandlerResponse(req'[r])
                 IN  /\ a.kind = "return" /\ a.status = HTTP_200_OK
                     /\ Len(a.rows) = Len(issued) - nDeleted
                     /\ \A j, k \in DOMAIN a.rows : j # k => a.rows[j].id # a.rows[k].id )
      ]_vars

\* get_users has returned one record, the second of two created rows, the
\* first having been deleted
C6_Witness ==
    \E r \in Reqs :
        /\ Done(r, "get_users") /\ req[r].resp.kind = "return"
        /\ Len(req[r].resp.rows) = 1 /\ req[r].resp.rows[1].id = 2
        /\ Len(issued) = 2 /\ nDeleted = 1

(* C7: of create_user requests in flight together, whose INSERTs have run    *)
(* without raising, no two hold the same id, and each holds a record with    *)
(* the name, email, phone and password of its own payload.                   *)
C7_ConcurrentCreatesDistinctIds ==
    \A r1, r2 \in Reqs :
        ( /\ req[r1].op = "create_user" /\ req[r1].pc \in {"release", "done"}
          /\ req[r1].exc = ""
          /\ req[r2].op = "create_user" /\ req[r2].pc \in {"release", "done"}
          /\ req[r2].exc = "" )
        => /\ Len(req[r1].result) = 1
           /\ SameFields(req[r1].result[1], req[r1].post)
           /\ r1 # r2 => req[r1].result[1].id # req[r2].result[1].id
           /\ req[r1].pc = "done" =>
                 req[r1].resp = Response("return", HTTP_201_CREATED, req[r1].result, <<>>)

\* two creates with different payloads, both past their INSERT and neither
\* yet out of its async with block
C7_Witness ==
    \E r1, r2 \in Reqs :
        /\ r1 # r2
        /\ req[r1].op = "create_user" /\ req[r1].pc = "release" /\ req[r1].exc = ""
        /\ req[r2].op = "create_user" /\ req[r2].pc = "release" /\ req[r2].exc = ""
        /\ req[r1].post # req[r2].post

(* C8: a handler holds a connection only between its acquire and the exit of *)
(* its async with block; the number of leased connections is the number of   *)
(* handlers inside their block, so it is zero when no request is in flight,  *)
(* whichever way the handlers left: return, 404, or a database exception,    *)
(* caught or not.                                                            *)
C8_ConnectionsReleasedOnEveryPath ==
    /\ \A r \in Reqs : req[r].conn <=> req[r].pc \in {"exec", "release"}
    /\ leased = Cardinality({r \in Reqs : req[r].conn})
    /\ (\A r \in Reqs : req[r].pc \in {"idle", "done"}) => leased = 0

\* nothing is leased after one handler left with an uncaught database
\* exception and another with a caught one
C8_Witness ==
    \E r1, r2 \in Reqs :
        /\ req[r1].pc = "done" /\ req[r1].exc \in DbErrors
        /\ req[r1].resp.kind = "unhandled"
        /\ req[r2].pc = "done" /\ req[r2].exc \in DbErrors
        /\ req[r2].resp.kind \in {"JSONResponse", "HTTPException"}
        /\ leased = 0

(* C9: a database exception from the statement of create_user is answered    *)
(* with a returned 500 JSONResponse {"error": text}, one from delete_user    *)
(* with a raised 500 HTTPException "Failed to delete user: text"; one from   *)
(* get_users, get_user or update_user leaves the handler uncaught.           *)
C9_DbExceptionCaughtOnlyByCreateAndDelete ==
    \A r \in Reqs :
        (req[r].pc = "done" /\ req[r].exc \in DbErrors) =>
            CASE req[r].op = "create_user" ->
                    req[r].resp = Response("JSONResponse", HTTP_500, <<>>,
                                           <<"error", req[r].exc>>)
              [] req[r].op = "delete_user" ->
                    req[r].resp = Response("HTTPException", HTTP_500, <<>>,
                        <<"detail", "Failed to delete user: " \o req[r].exc>>)
              [] OTHER ->
                    /\ req[r].resp.kind = "unhandled"
                    /\ req[r].resp.body = <<"exception", req[r].exc>>

\* a create has answered a database exception with its 500, while an update
\* let the same exception through
C9_Witness ==
    \E r1, r2 \in Reqs :
        /\ Done(r1, "create_user") /\ req[r1].exc \in DbErrors
        /\ req[r1].resp.kind = "JSONResponse"
        /\ Done(r2, "update_user") /\ req[r2].exc \in DbErrors
        /\ req[r2].resp.kind = "unhandled"

(* C10: at most one pool is ever created and it is closed at most once: none *)
(* exists before startup has completed, exactly one from then on, and it is  *)
(* closed exactly when shutdown has completed; no handler holds a connection *)
(* before the pool exists or after shutdown has closed it.                   *)
C10_PoolCreatedAndClosedOnce ==
    /\ poolCreates = (IF phase \in {"init", "starting", "failed"} THEN 0 ELSE 1)
    /\ poolCloses = (IF phase = "stopped" THEN 1 ELSE 0)
    /\ (pool = "None") <=> (poolCreates = 0)
    /\ (pool = "closed") <=> (poolCloses = 1)
    /\ (poolCreates = 0 \/ poolCloses = 1) =>
          /\ leased = 0
          /\ \A r \in Reqs : ~req[r].conn /\ req[r].pc \notin {"exec", "release"}

\* after shutdown a handler was called and failed at acquire
C10_Witness ==
    /\ phase = "stopped"
    /\ issued # <<>>
    /\ \E r \in Reqs : req[r].pc = "done" /\ req[r].exc = "InterfaceError"

====
